---- MODULE Spec2Model ----
(***************************************************************************)
(* Ability derivation of the unified alerting UI                           *)
(* (public/app/features/alerting/unified/hooks/useAbilities.ts).           *)
(*                                                                         *)
(* An Ability is the pair <<supported, allowed>>.  An optional value of    *)
(* the source (T | undefined) is a sequence of length at most one: <<>> is *)
(* undefined and <<v>> is the value v.                                     *)
(***************************************************************************)
EXTENDS Integers, Sequences, FiniteSets, TLC

VARIABLES
    perms,        \* the permissions ctx.hasPermission answers true for
    hook,         \* which hook has been evaluated, "none" before any
    rule,         \* the CombinedRule handed to useAllAlertRuleAbilities
    editable,     \* what useIsRuleEditable returned
    amChoice,     \* what useGetAlertmanagerChoiceStatusQuery returned
    alertmanager, \* what useAlertmanager returned
    abilities     \* the Abilities table the hook returned

\* ConfigPublicDashboard.tsx
VARIABLES
    form,            \* the values of the react-hook-form form
    publicDashboard, \* the public dashboard as the backend holds it
    submitting,      \* the handleSubmit calls whose awaited validation is still pending
    inFlight,        \* the update mutations in flight, each its request id and payload
    latest,          \* the id of the update request started last, 0 before any
    renderedIsLoading, \* isLoading of the update mutation as the last render saw it
    modal,           \* what the ModalsController shows
    deletes,         \* how many delete mutations were dispatched
    revokes,         \* how often Revoke was clicked
    confirmations,   \* how often the delete modal was confirmed
    dismissals,      \* how often the delete modal was dismissed
    reported         \* the interactions handed to reportInteraction

abilityVars == <<hook, rule, editable, amChoice, alertmanager, abilities>>

dashboardVars == <<form, publicDashboard, submitting, inFlight, latest, renderedIsLoading, modal,
                   deletes, revokes, confirmations, dismissals, reported>>

vars == <<perms, abilityVars, dashboardVars>>

----------------------------------------------------------------------------
(* Bounds *)

\* the user holds at most this many permissions
MaxPerms == 1

\* the user changes a setting of the public dashboard at most this many times
MaxChanges == 3

\* the user clicks Revoke at most this many times
MaxRevokes == 2

----------------------------------------------------------------------------
(* The three action catalogs: enum member |-> its string value *)

AlertmanagerAction ==
    [ ViewExternalConfiguration    |-> "view-external-configuration",
      UpdateExternalConfiguration  |-> "update-external-configuration",
      CreateContactPoint           |-> "create-contact-point",
      ViewContactPoint             |-> "view-contact-point",
      UpdateContactPoint           |-> "edit-contact-points",
      DeleteContactPoint           |-> "delete-contact-point",
      ExportContactPoint           |-> "export-contact-point",
      CreateNotificationTemplate   |-> "create-notification-template",
      ViewNotificationTemplate     |-> "view-notification-template",
      UpdateNotificationTemplate   |-> "edit-notification-template",
      DeleteNotificationTemplate   |-> "delete-notification-template",
      DecryptSecrets               |-> "decrypt-secrets",
      CreateNotificationPolicy     |-> "create-notification-policy",
      ViewNotificationPolicyTree   |-> "view-notification-policy-tree",
      UpdateNotificationPolicyTree |-> "update-notification-policy-tree",
      DeleteNotificationPolicy     |-> "delete-notification-policy",
      ExportNotificationPolicies   |-> "export-notification-policies",
      CreateSilence                |-> "create-silence",
      ViewSilence                  |-> "view-silence",
      UpdateSilence                |-> "update-silence",
      ViewMuteTiming               |-> "view-mute-timing",
      CreateMuteTiming             |-> "create-mute-timing",
      UpdateMuteTiming             |-> "update-mute-timing",
      DeleteMuteTiming             |-> "delete-mute-timing" ]

\* a slip that gives two members of the enum the same value
AlertRuleActionClash ==
    [ Duplicate    |-> "duplicate-alert-rule",
      View         |-> "view-alert-rule",
      Update       |-> "view-alert-rule",
      Delete       |-> "delete-alert-rule",
      Explore      |-> "explore-alert-rule",
      Silence      |-> "silence-alert-rule",
      ModifyExport |-> "modify-export-rule" ]

AlertRuleAction ==
    [ Duplicate    |-> "duplicate-alert-rule",
      View         |-> "view-alert-rule",
      Update       |-> "update-alert-rule",
      Delete       |-> "delete-alert-rule",
      Explore      |-> "explore-alert-rule",
      Silence      |-> "silence-alert-rule",
      ModifyExport |-> "modify-export-rule" ]

AlertingAction ==
    [ CreateAlertRule           |-> "create-alert-rule",
      ViewAlertRule             |-> "view-alert-rule",
      UpdateAlertRule           |-> "update-alert-rule",
      DeleteAlertRule           |-> "delete-alert-rule",
      ExportGrafanaManagedRules |-> "export-grafana-managed-rules",
      CreateExternalAlertRule   |-> "create-external-alert-rule",
      ViewExternalAlertRule     |-> "view-external-alert-rule",
      UpdateExternalAlertRule   |-> "update-external-alert-rule",
      DeleteExternalAlertRule   |-> "delete-external-alert-rule" ]

\* the string values of an enum
EnumValues(enum) == { enum[m] : m \in DOMAIN enum }

AlwaysSupported == TRUE
NotSupported == FALSE

----------------------------------------------------------------------------
(* Collaborators that live outside useAbilities.ts *)

\* the members of AccessControlAction that useAbilities.ts names
AccessControlAction ==
    [ AlertingRuleCreate                 |-> "AlertingRuleCreate",
      AlertingRuleRead                   |-> "AlertingRuleRead",
      AlertingRuleUpdate                 |-> "AlertingRuleUpdate",
      AlertingRuleDelete                 |-> "AlertingRuleDelete",
      AlertingRuleExternalWrite          |-> "AlertingRuleExternalWrite",
      AlertingRuleExternalRead           |-> "AlertingRuleExternalRead",
      AlertingNotificationsExternalRead  |-> "AlertingNotificationsExternalRead",
      AlertingNotificationsExternalWrite |-> "AlertingNotificationsExternalWrite",
      DataSourcesExplore                 |-> "DataSourcesExplore",
      AlertingInstanceCreate             |-> "AlertingInstanceCreate" ]

GRAFANA_RULES_SOURCE_NAME == "grafana"

AlertmanagerChoice == [ Internal |-> "internal", External |-> "external", All |-> "all" ]

\* permissions are scoped by whether the source (or alertmanager) is the built-in one
SourceType(name) == IF name = GRAFANA_RULES_SOURCE_NAME THEN "grafana" ELSE "external"

\* an opaque permission identifier of one category, operation and scope
PermissionId(category, op, scope) == category \o "." \o op \o "@" \o scope

getRulesPermissions(rulesSourceName) ==
    [ op \in {"create", "read", "update", "delete"} |->
        PermissionId("rules", op, SourceType(rulesSourceName)) ]

getNotificationsPermissions(selectedAlertmanager) ==
    [ create |-> PermissionId("notifications", "create", SourceType(selectedAlertmanager)),
      read   |-> PermissionId("notifications", "read", SourceType(selectedAlertmanager)),
      update |-> PermissionId("notifications", "update", SourceType(selectedAlertmanager)),
      delete |-> PermissionId("notifications", "delete", SourceType(selectedAlertmanager)),
      provisioning |->
        [ readSecrets |->
            PermissionId("provisioning", "readSecrets", SourceType(selectedAlertmanager)) ] ]

getInstancesPermissions(selectedAlertmanager) ==
    [ op \in {"create", "read", "update"} |->
        PermissionId("instances", op, SourceType(selectedAlertmanager)) ]

SourceNames == {GRAFANA_RULES_SOURCE_NAME, "prometheus"}

\* every permission identifier a hook can ask about
Permissions ==
    EnumValues(AccessControlAction)
    \cup UNION { { getRulesPermissions(n)[op] : op \in DOMAIN getRulesPermissions(n) }
                 \cup { getNotificationsPermissions(n)[op] :
                          op \in {"create", "read", "update", "delete"} }
                 \cup { getNotificationsPermissions(n).provisioning.readSecrets }
                 \cup { getInstancesPermissions(n)[op] : op \in DOMAIN getInstancesPermissions(n) }
                 : n \in SourceNames }

\* ctx.hasPermission
hasPermission(action) == action \in perms

\* isGrafanaRulerRule(rule.rulerRule): only a Grafana ruler rule carries grafana_alert
isGrafanaRulerRule(rulerRule) == rulerRule # <<>> /\ rulerRule[1].kind = "grafana"

\* isFederatedRuleGroup(rule.group): the group names source tenants
isFederatedRuleGroup(group) == Len(group.source_tenants) > 0

\* Boolean(s) of an optional string
BooleanOfString(s) == s # <<>> /\ s[1] # ""

\* a slip that falls back to the opposite default
CoalesceOpposite(v, d) == IF v = <<>> THEN ~d ELSE v[1]

\* v ?? d
Coalesce(v, d) == IF v = <<>> THEN d ELSE v[1]

----------------------------------------------------------------------------
(* useAbilities.ts *)

\* an object literal with computed keys: a later entry of a key replaces an earlier one
ObjectLiteral(entries) ==
    [ k \in { entries[i][1] : i \in DOMAIN entries } |->
        LET last == CHOOSE i \in DOMAIN entries :
                        /\ entries[i][1] = k
                        /\ \A j \in DOMAIN entries : entries[j][1] = k => j <= i
        IN  entries[last][2] ]

toAbility(supported, action) == <<supported, hasPermission(action)>>

useAlertingAbilities ==
    ObjectLiteral(<<
      <<AlertingAction.CreateAlertRule, toAbility(AlwaysSupported, AccessControlAction.AlertingRuleCreate)>>,
      <<AlertingAction.ViewAlertRule, toAbility(AlwaysSupported, AccessControlAction.AlertingRuleRead)>>,
      <<AlertingAction.UpdateAlertRule, toAbility(AlwaysSupported, AccessControlAction.AlertingRuleUpdate)>>,
      <<AlertingAction.DeleteAlertRule, toAbility(AlwaysSupported, AccessControlAction.AlertingRuleDelete)>>,
      <<AlertingAction.ExportGrafanaManagedRules, toAbility(AlwaysSupported, AccessControlAction.AlertingRuleRead)>>,
      <<AlertingAction.CreateExternalAlertRule, toAbility(AlwaysSupported, AccessControlAction.AlertingRuleExternalWrite)>>,
      <<AlertingAction.ViewExternalAlertRule, toAbility(AlwaysSupported, AccessControlAction.AlertingRuleExternalRead)>>,
      <<AlertingAction.UpdateExternalAlertRule, toAbility(AlwaysSupported, AccessControlAction.AlertingRuleExternalWrite)>>,
      <<AlertingAction.DeleteExternalAlertRule, toAbility(AlwaysSupported, AccessControlAction.AlertingRuleExternalWrite)>>
    >>)

useAlertingAbility(action) == useAlertingAbilities[action]

\* the query is skipped (never started) for a rule that is not Grafana managed
QuerySkipped(rulesSource) == ~(rulesSource.isString /\ rulesSource.name = GRAFANA_RULES_SOURCE_NAME)

\* amConfigStatus?.alertmanagersChoice
alertmanagersChoice(amConfigStatus) ==
    IF amConfigStatus = <<>> THEN <<>> ELSE <<amConfigStatus[1].alertmanagersChoice>>

\* a slip that supports silencing only when alerts go to every alertmanager
silenceSupportedOnlyForAll(amConfigStatus) ==
    alertmanagersChoice(amConfigStatus) = <<AlertmanagerChoice.All>>

silenceSupported(amConfigStatus) ==
    LET interactsOnlyWithExternalAMs ==
            alertmanagersChoice(amConfigStatus) = <<AlertmanagerChoice.External>>
        interactsWithAll == alertmanagersChoice(amConfigStatus) = <<AlertmanagerChoice.All>>
    IN  ~interactsOnlyWithExternalAMs \/ interactsWithAll

\* a slip that forgets the isLoading half of the early return
useCanSilenceIgnoringLoading(rulesSource, query) ==
    LET isGrafanaManagedRule == rulesSource.isString /\ rulesSource.name = GRAFANA_RULES_SOURCE_NAME
    IN  IF ~isGrafanaManagedRule
        THEN <<FALSE, FALSE>>
        ELSE toAbility(silenceSupported(query.currentData), AccessControlAction.AlertingInstanceCreate)

useCanSilence(rulesSource, query) ==
    LET isGrafanaManagedRule == rulesSource.isString /\ rulesSource.name = GRAFANA_RULES_SOURCE_NAME
        amConfigStatus == query.currentData
        isLoading == query.isLoading
    IN  IF ~isGrafanaManagedRule \/ isLoading
        THEN <<FALSE, FALSE>>
        ELSE toAbility(silenceSupported(amConfigStatus), AccessControlAction.AlertingInstanceCreate)

isProvisioned(r) ==
    isGrafanaRulerRule(r.rulerRule) /\ BooleanOfString(r.rulerRule[1].provenance)

isFederated(r) == isFederatedRuleGroup(r.group)

\* if a rule is either provisioned or a federated rule, it may not be removed or edited
immutableRule(r) == isProvisioned(r) \/ isFederated(r)

\* a slip that drops the loading guard
MaybeSupportedIgnoringLoading(ed) == Coalesce(ed.isRulerAvailable, FALSE)

\* while we gather info, pretend it's not supported
MaybeSupported(ed) ==
    LET isRulerAvailable == Coalesce(ed.isRulerAvailable, FALSE)
        loading == ed.loading
    IN  IF loading THEN NotSupported ELSE isRulerAvailable

\* a slip that drops the immutability override
MaybeSupportedThoughImmutable(r, ed) == MaybeSupported(ed)

\* a slip that swaps the branches of the conditional
MaybeSupportedOnlyIfImmutable(r, ed) ==
    IF immutableRule(r) THEN MaybeSupported(ed) ELSE NotSupported

MaybeSupportedUnlessImmutable(r, ed) ==
    IF immutableRule(r) THEN NotSupported ELSE MaybeSupported(ed)

useAllAlertRuleAbilities(r, ed, query) ==
    LET rulesSource == r.namespace.rulesSource
        rulesSourceName == rulesSource.name
        isEditable == ed.isEditable
        isRemovable == ed.isRemovable
        exportAllowed == useAlertingAbility(AlertingAction.ExportGrafanaManagedRules)[2]
        rulesPermissions == getRulesPermissions(rulesSourceName)
        canSilence == useCanSilence(rulesSource, query)
    IN  ObjectLiteral(<<
          <<AlertRuleAction.Duplicate, toAbility(MaybeSupported(ed), rulesPermissions.create)>>,
          <<AlertRuleAction.View, toAbility(AlwaysSupported, rulesPermissions.read)>>,
          <<AlertRuleAction.Update, <<MaybeSupportedUnlessImmutable(r, ed), Coalesce(isEditable, FALSE)>> >>,
          <<AlertRuleAction.Delete, <<MaybeSupportedUnlessImmutable(r, ed), Coalesce(isRemovable, FALSE)>> >>,
          <<AlertRuleAction.Explore, toAbility(AlwaysSupported, AccessControlAction.DataSourcesExplore)>>,
          <<AlertRuleAction.Silence, canSilence>>,
          <<AlertRuleAction.ModifyExport, <<MaybeSupported(ed), exportAllowed>> >>
        >>)

\* a slip that destructures the wrong field of the alertmanager context
hasConfigurationAPIFromFlavor(am) == am.isGrafanaAlertmanager

hasConfigurationAPI(am) == am.hasConfigurationAPI

\* a slip that gates exporting on the configuration API
isGrafanaFlavoredFromConfigurationAPI(am) == am.hasConfigurationAPI

isGrafanaFlavoredAlertmanager(am) == am.isGrafanaAlertmanager

useAllAlertmanagerAbilities(am) ==
    LET selectedAlertmanager == am.selectedAlertmanager
        notificationsPermissions == getNotificationsPermissions(selectedAlertmanager)
        instancePermissions == getInstancesPermissions(selectedAlertmanager)
    IN  ObjectLiteral(<<
          <<AlertmanagerAction.ViewExternalConfiguration,
            toAbility(AlwaysSupported, AccessControlAction.AlertingNotificationsExternalRead)>>,
          <<AlertmanagerAction.UpdateExternalConfiguration,
            toAbility(hasConfigurationAPI(am), AccessControlAction.AlertingNotificationsExternalWrite)>>,
          <<AlertmanagerAction.CreateContactPoint, toAbility(hasConfigurationAPI(am), notificationsPermissions.create)>>,
          <<AlertmanagerAction.ViewContactPoint, toAbility(AlwaysSupported, notificationsPermissions.read)>>,
          <<AlertmanagerAction.UpdateContactPoint, toAbility(hasConfigurationAPI(am), notificationsPermissions.update)>>,
          <<AlertmanagerAction.DeleteContactPoint, toAbility(hasConfigurationAPI(am), notificationsPermissions.delete)>>,
          <<AlertmanagerAction.ExportContactPoint, toAbility(isGrafanaFlavoredAlertmanager(am), notificationsPermissions.read)>>,
          <<AlertmanagerAction.CreateNotificationTemplate, toAbility(hasConfigurationAPI(am), notificationsPermissions.create)>>,
          <<AlertmanagerAction.ViewNotificationTemplate, toAbility(AlwaysSupported, notificationsPermissions.read)>>,
          <<AlertmanagerAction.UpdateNotificationTemplate, toAbility(hasConfigurationAPI(am), notificationsPermissions.update)>>,
          <<AlertmanagerAction.DeleteNotificationTemplate, toAbility(hasConfigurationAPI(am), notificationsPermissions.delete)>>,
          <<AlertmanagerAction.CreateNotificationPolicy, toAbility(hasConfigurationAPI(am), notificationsPermissions.create)>>,
          <<AlertmanagerAction.ViewNotificationPolicyTree, toAbility(AlwaysSupported, notificationsPermissions.read)>>,
          <<AlertmanagerAction.UpdateNotificationPolicyTree, toAbility(hasConfigurationAPI(am), notificationsPermissions.update)>>,
          <<AlertmanagerAction.DeleteNotificationPolicy, toAbility(hasConfigurationAPI(am), notificationsPermissions.delete)>>,
          <<AlertmanagerAction.ExportNotificationPolicies,
            toAbility(isGrafanaFlavoredAlertmanager(am), notificationsPermissions.read)>>,
          <<AlertmanagerAction.DecryptSecrets,
            toAbility(isGrafanaFlavoredAlertmanager(am), notificationsPermissions.provisioning.readSecrets)>>,
          <<AlertmanagerAction.CreateSilence, toAbility(hasConfigurationAPI(am), instancePermissions.create)>>,
          <<AlertmanagerAction.ViewSilence, toAbility(AlwaysSupported, instancePermissions.read)>>,
          <<AlertmanagerAction.UpdateSilence, toAbility(hasConfigurationAPI(am), instancePermissions.update)>>,
          <<AlertmanagerAction.CreateMuteTiming, toAbility(hasConfigurationAPI(am), notificationsPermissions.create)>>,
          <<AlertmanagerAction.ViewMuteTiming, toAbility(AlwaysSupported, notificationsPermissions.read)>>,
          <<AlertmanagerAction.UpdateMuteTiming, toAbility(hasConfigurationAPI(am), notificationsPermissions.update)>>,
          <<AlertmanagerAction.DeleteMuteTiming, toAbility(hasConfigurationAPI(am), notificationsPermissions.delete)>>
        >>)

----------------------------------------------------------------------------
(* The values the hooks' arguments and collaborators can take *)

\* T | undefined
Optional(S) == {<<>>} \cup { <<v>> : v \in S }

\* RulesSource: the literal 'grafana', or the settings object of a data source
RulesSources ==
    { [isString |-> TRUE, name |-> GRAFANA_RULES_SOURCE_NAME] }
    \cup { [isString |-> FALSE, name |-> n] : n \in SourceNames }

\* rule.rulerRule: absent, a Grafana ruler rule (with or without provenance), a cloud rule
RulerRules ==
    {<<>>}
    \cup { <<[kind |-> "grafana", provenance |-> p]>> : p \in Optional({"", "api"}) }
    \cup { <<[kind |-> "cloud", provenance |-> <<>>]>> }

RuleGroups == { [source_tenants |-> t] : t \in {<<>>, <<"tenant">>} }

CombinedRules ==
    { [namespace |-> [rulesSource |-> s], rulerRule |-> rr, group |-> g] :
        s \in RulesSources, rr \in RulerRules, g \in RuleGroups }

EditableResults ==
    [ isEditable : Optional(BOOLEAN), isRemovable : Optional(BOOLEAN),
      isRulerAvailable : Optional(BOOLEAN), loading : BOOLEAN ]

\* the query hook's result: no data while loading; after it settled, the data or
\* (the request failed) none; a skipped query is neither loading nor has data
QueryResults(skip) ==
    IF skip
    THEN { [currentData |-> <<>>, isLoading |-> FALSE] }
    ELSE { [currentData |-> <<>>, isLoading |-> TRUE], [currentData |-> <<>>, isLoading |-> FALSE] }
         \cup { [currentData |-> <<[alertmanagersChoice |-> AlertmanagerChoice[c]]>>, isLoading |-> FALSE] :
                  c \in DOMAIN AlertmanagerChoice }

AlertmanagerContexts ==
    [ selectedAlertmanager : SourceNames, hasConfigurationAPI : BOOLEAN,
      isGrafanaAlertmanager : BOOLEAN ]

RECURSIVE SetsUpTo(_, _)
\* the subsets of S with at most n elements
SetsUpTo(S, n) ==
    IF n = 0 THEN {{}}
    ELSE LET smaller == SetsUpTo(S, n - 1)
         IN  smaller \cup { T \cup {x} : T \in smaller, x \in S }

NoRule == [namespace |-> [rulesSource |-> [isString |-> TRUE, name |-> GRAFANA_RULES_SOURCE_NAME]],
           rulerRule |-> <<>>, group |-> [source_tenants |-> <<>>]]
NoEditable == [isEditable |-> <<>>, isRemovable |-> <<>>, isRulerAvailable |-> <<>>, loading |-> FALSE]
NoQuery == [currentData |-> <<>>, isLoading |-> FALSE]
NoAlertmanager == [selectedAlertmanager |-> GRAFANA_RULES_SOURCE_NAME, hasConfigurationAPI |-> FALSE,
                   isGrafanaAlertmanager |-> FALSE]

----------------------------------------------------------------------------
(* ConfigPublicDashboard.tsx: the values its state can take *)

\* AccessControlAction.DashboardsPublicWrite
DashboardsPublicWrite == "DashboardsPublicWrite"

\* shareDashboardType.publicDashboard
shareDashboardType == [ publicDashboard |-> "public-dashboard" ]

\* the fields of ConfigPublicDashboardForm
FormFields == {"isAnnotationsEnabled", "isTimeSelectionEnabled", "isPaused"}

PublicDashboards == [ isEnabled : BOOLEAN, annotationsEnabled : BOOLEAN, timeSelectionEnabled : BOOLEAN ]

\* useForm's defaultValues
defaultValues(pd) ==
    [ isAnnotationsEnabled   |-> pd.annotationsEnabled,
      isTimeSelectionEnabled |-> pd.timeSelectionEnabled,
      isPaused               |-> ~pd.isEnabled ]

NoModal == [component |-> "none", activeTab |-> "none"]

\* the component before the user touched it, for a public dashboard pd
Mounted(pd) ==
    /\ publicDashboard = pd
    /\ form = defaultValues(pd)
    /\ submitting = <<>>
    /\ inFlight = {}
    /\ latest = 0
    /\ renderedIsLoading = FALSE
    /\ modal = NoModal
    /\ deletes = 0
    /\ revokes = 0
    /\ confirmations = 0
    /\ dismissals = 0
    /\ reported = {}

----------------------------------------------------------------------------
(* The state machine: the user's permissions are fixed, then one hook is evaluated *)

Init ==
    /\ perms \in SetsUpTo(Permissions, MaxPerms)
    /\ hook = "none"
    /\ rule = NoRule
    /\ editable = NoEditable
    /\ amChoice = NoQuery
    /\ alertmanager = NoAlertmanager
    /\ abilities = <<>>
    /\ Mounted([isEnabled |-> FALSE, annotationsEnabled |-> FALSE, timeSelectionEnabled |-> FALSE])

UseAlertingAbilities ==
    /\ hook = "none"
    /\ hook' = "alerting"
    /\ abilities' = useAlertingAbilities
    /\ UNCHANGED <<perms, rule, editable, amChoice, alertmanager, dashboardVars>>

UseAllAlertRuleAbilities ==
    /\ hook = "none"
    /\ \E r \in CombinedRules, ed \in EditableResults :
         \E q \in QueryResults(QuerySkipped(r.namespace.rulesSource)) :
            /\ rule' = r
            /\ editable' = ed
            /\ amChoice' = q
            /\ abilities' = useAllAlertRuleAbilities(r, ed, q)
    /\ hook' = "rule"
    /\ UNCHANGED <<perms, alertmanager, dashboardVars>>

UseAllAlertmanagerAbilities ==
    /\ hook = "none"
    /\ \E am \in AlertmanagerContexts :
         /\ alertmanager' = am
         /\ abilities' = useAllAlertmanagerAbilities(am)
    /\ hook' = "alertmanager"
    /\ UNCHANGED <<perms, rule, editable, amChoice, dashboardVars>>

Next ==
    \/ UseAlertingAbilities
    \/ UseAllAlertRuleAbilities
    \/ UseAllAlertmanagerAbilities

Spec == Init /\ [][Next]_vars

----------------------------------------------------------------------------
(* What the claims read off a state *)

RuleHookEvaluated == hook = "rule"
AlertmanagerHookEvaluated == hook = "alertmanager"

\* the rule carries a provenance, or its group is federated
RuleProvisioned ==
    /\ rule.rulerRule # <<>>
    /\ rule.rulerRule[1].kind = "grafana"
    /\ rule.rulerRule[1].provenance \notin {<<>>, <<"">>}
RuleFederated == rule.group.source_tenants # <<>>

\* the ruler availability the collaborator reported, absent counting as unavailable
RulerAvailable == editable.isRulerAvailable = <<TRUE>>

\* the rule belongs to the built-in Grafana rules source
BuiltInSource == rule.namespace.rulesSource = [isString |-> TRUE, name |-> "grafana"]

Supported(action) == abilities[action][1]
Allowed(action) == abilities[action][2]

----------------------------------------------------------------------------
(* C1 *)

\* C1 as stated: for a provisioned or federated rule Update and Delete are unsupported,
\* and ModifyExport is supported exactly when the ruler is available.
C1_AsStated ==
    (RuleHookEvaluated /\ (RuleProvisioned \/ RuleFederated)) =>
        /\ Supported("update-alert-rule") = FALSE
        /\ Supported("delete-alert-rule") = FALSE
        /\ Supported("modify-export-rule") = RulerAvailable

\* C1 (amended): for a provisioned or federated rule Update and Delete are unsupported
\* whatever the ruler availability, while ModifyExport is not forced to false by
\* immutability: it is supported exactly when the ruler is available and the
\* editability collaborator is not loading.
C1_ImmutableRule ==
    (RuleHookEvaluated /\ (RuleProvisioned \/ RuleFederated)) =>
        /\ Supported("update-alert-rule") = FALSE
        /\ Supported("delete-alert-rule") = FALSE
        /\ Supported("modify-export-rule") = (RulerAvailable /\ ~editable.loading)

\* an immutable rule whose ruler is available: export is supported, editing is not
C1_Witness ==
    /\ RuleHookEvaluated
    /\ RuleProvisioned
    /\ RulerAvailable
    /\ ~editable.loading
    /\ Supported("modify-export-rule")
    /\ ~Supported("update-alert-rule")

----------------------------------------------------------------------------
(* C2 *)

\* C2: while useIsRuleEditable reports loading, Duplicate, Update, Delete and
\* ModifyExport are all unsupported, whatever the other flags and permissions are.
C2_LoadingUnsupported ==
    (RuleHookEvaluated /\ editable.loading) =>
        \A a \in {"duplicate-alert-rule", "update-alert-rule", "delete-alert-rule",
                  "modify-export-rule"} : Supported(a) = FALSE

\* loading although the ruler is reported available and the rule is mutable
C2_Witness ==
    /\ RuleHookEvaluated
    /\ editable.loading
    /\ RulerAvailable
    /\ ~RuleProvisioned
    /\ ~RuleFederated
    /\ ~Supported("duplicate-alert-rule")

----------------------------------------------------------------------------
(* C3 *)

\* C3: Silence is exactly (false, false) when the rule's source is not the built-in
\* Grafana source or the alertmanager-choice lookup is loading, whatever the
\* permissions and the routing choice are.
C3_SilenceOff ==
    (RuleHookEvaluated /\ (~BuiltInSource \/ amChoice.isLoading)) =>
        abilities["silence-alert-rule"] = <<FALSE, FALSE>>

\* the lookup is loading for a built-in rule of a user who may create silences
C3_Witness ==
    /\ RuleHookEvaluated
    /\ BuiltInSource
    /\ amChoice.isLoading
    /\ "AlertingInstanceCreate" \in perms
    /\ abilities["silence-alert-rule"] = <<FALSE, FALSE>>

----------------------------------------------------------------------------
(* C4 *)

\* the routing choice that arrived, if one did
ArrivedChoice ==
    IF amChoice.currentData = <<>> THEN "none" ELSE amChoice.currentData[1].alertmanagersChoice

\* C4: for a built-in rule whose lookup is not loading, Silence is unsupported for the
\* choice External and supported for All and for Internal, and allowed is the answer
\* of the create-silence-instance permission check.
C4_SilenceByChoice ==
    (RuleHookEvaluated /\ BuiltInSource /\ ~amChoice.isLoading) =>
        /\ ArrivedChoice = "external" => Supported("silence-alert-rule") = FALSE
        /\ ArrivedChoice = "all" => Supported("silence-alert-rule") = TRUE
        /\ ArrivedChoice = "internal" => Supported("silence-alert-rule") = TRUE
        /\ ArrivedChoice # "none" =>
             Allowed("silence-alert-rule") = ("AlertingInstanceCreate" \in perms)

\* alerts go to the internal alertmanager only and the user may create silences
C4_Witness ==
    /\ RuleHookEvaluated
    /\ BuiltInSource
    /\ ~amChoice.isLoading
    /\ ArrivedChoice = "internal"
    /\ abilities["silence-alert-rule"] = <<TRUE, TRUE>>

----------------------------------------------------------------------------
(* C5 *)

\* C5: for a built-in rule, Silence is never supported while no routing choice has
\* arrived from the alertmanager-choice lookup.
C5_FailClosed ==
    (RuleHookEvaluated /\ BuiltInSource /\ amChoice.currentData = <<>>) =>
        Supported("silence-alert-rule") = FALSE

----------------------------------------------------------------------------
(* C6 *)

\* the source-scoped permission to update rules of the rule's source
UpdatePermission == getRulesPermissions(rule.namespace.rulesSource.name).update

\* C6 as stated: a mutable rule with the ruler available, nothing loading and the
\* update permission granted has Update = (true, true).
C6_AsStated ==
    (/\ RuleHookEvaluated
     /\ ~RuleProvisioned
     /\ ~RuleFederated
     /\ RulerAvailable
     /\ ~editable.loading
     /\ UpdatePermission \in perms) =>
        abilities["update-alert-rule"] = <<TRUE, TRUE>>

\* C6 (amended): a mutable rule with the ruler available, nothing loading and the
\* isEditable flag of useIsRuleEditable true has Update = (true, true).
C6_UpdateScenario ==
    (/\ RuleHookEvaluated
     /\ ~RuleProvisioned
     /\ ~RuleFederated
     /\ RulerAvailable
     /\ ~editable.loading
     /\ editable.isEditable = <<TRUE>>) =>
        abilities["update-alert-rule"] = <<TRUE, TRUE>>

\* the scenario itself, for a user who holds no permission at all
C6_Witness ==
    /\ RuleHookEvaluated
    /\ ~RuleProvisioned
    /\ ~RuleFederated
    /\ RulerAvailable
    /\ ~editable.loading
    /\ editable.isEditable = <<TRUE>>
    /\ perms = {}
    /\ abilities["update-alert-rule"] = <<TRUE, TRUE>>

----------------------------------------------------------------------------
(* C7 *)

CreateUpdateDeleteActions ==
    { "update-external-configuration",
      "create-contact-point", "edit-contact-points", "delete-contact-point",
      "create-notification-template", "edit-notification-template", "delete-notification-template",
      "create-notification-policy", "update-notification-policy-tree", "delete-notification-policy",
      "create-mute-timing", "update-mute-timing", "delete-mute-timing",
      "create-silence", "update-silence" }

\* C7: every create, update or delete action of an alertmanager is supported exactly
\* when the alertmanager has a configuration API, whatever its flavor and the
\* permissions are.
C7_ConfigurationAPI ==
    AlertmanagerHookEvaluated =>
        \A a \in CreateUpdateDeleteActions : Supported(a) = alertmanager.hasConfigurationAPI

\* a Grafana flavored alertmanager without configuration API: nothing can be changed
C7_Witness ==
    /\ AlertmanagerHookEvaluated
    /\ ~alertmanager.hasConfigurationAPI
    /\ alertmanager.isGrafanaAlertmanager
    /\ perms # {}
    /\ \A a \in CreateUpdateDeleteActions : ~Supported(a)

----------------------------------------------------------------------------
(* C8 *)

NotificationsRead == getNotificationsPermissions(alertmanager.selectedAlertmanager).read
ReadSecrets ==
    getNotificationsPermissions(alertmanager.selectedAlertmanager).provisioning.readSecrets

\* C8: exporting contact points or notification policies and decrypting secrets are
\* supported exactly when the alertmanager is Grafana flavored, independently of the
\* configuration API; the exports are allowed by the notifications read permission
\* and decrypting by the read-secrets permission, which is another permission.
C8_GrafanaFlavored ==
    AlertmanagerHookEvaluated =>
        /\ \A a \in {"export-contact-point", "export-notification-policies", "decrypt-secrets"} :
               Supported(a) = alertmanager.isGrafanaAlertmanager
        /\ Allowed("export-contact-point") = (NotificationsRead \in perms)
        /\ Allowed("export-notification-policies") = (NotificationsRead \in perms)
        /\ Allowed("decrypt-secrets") = (ReadSecrets \in perms)
        /\ ReadSecrets # NotificationsRead

\* a Grafana flavored alertmanager without configuration API, and a user who may read
\* notifications but not secrets
C8_Witness ==
    /\ AlertmanagerHookEvaluated
    /\ alertmanager.isGrafanaAlertmanager
    /\ ~alertmanager.hasConfigurationAPI
    /\ abilities["export-contact-point"] = <<TRUE, TRUE>>
    /\ abilities["export-notification-policies"] = <<TRUE, TRUE>>
    /\ abilities["decrypt-secrets"] = <<TRUE, FALSE>>

----------------------------------------------------------------------------
(* C9 *)

\* C9: Update is allowed exactly when isEditable is true and Delete exactly when
\* isRemovable is true, an absent flag counting as false; permissions, immutability
\* and loading have no part in it.
C9_AllowedFlags ==
    RuleHookEvaluated =>
        /\ Allowed("update-alert-rule") = (editable.isEditable = <<TRUE>>)
        /\ Allowed("delete-alert-rule") = (editable.isRemovable = <<TRUE>>)

\* an immutable rule still loading, of a user without permissions: Update is allowed
\* by the flag alone, Delete is not because its flag is absent
C9_Witness ==
    /\ RuleHookEvaluated
    /\ RuleFederated
    /\ editable.loading
    /\ perms = {}
    /\ editable.isEditable = <<TRUE>>
    /\ editable.isRemovable = <<>>
    /\ abilities["update-alert-rule"] = <<FALSE, TRUE>>
    /\ abilities["delete-alert-rule"] = <<FALSE, FALSE>>

----------------------------------------------------------------------------
(* C10 *)

\* the catalog of the hook that was evaluated
Catalog ==
    CASE hook = "alerting" -> AlertingAction
      [] hook = "rule" -> AlertRuleAction
      [] hook = "alertmanager" -> AlertmanagerAction

\* C10: the table a hook returns has exactly one entry for every action of its
\* catalog, none missing and none extra, and every entry is a pair of booleans.
C10_Totality ==
    hook # "none" =>
        /\ DOMAIN abilities = EnumValues(Catalog)
        /\ Cardinality(DOMAIN abilities) = Cardinality(DOMAIN Catalog)
        /\ \A a \in DOMAIN abilities : abilities[a] \in BOOLEAN \X BOOLEAN

\* the largest catalog, resolved for an alertmanager
C10_Witness ==
    /\ AlertmanagerHookEvaluated
    /\ Cardinality(DOMAIN abilities) = Cardinality(DOMAIN AlertmanagerAction)
    /\ abilities["view-silence"] \in BOOLEAN \X BOOLEAN

----------------------------------------------------------------------------
(* ConfigPublicDashboard.tsx *)

hasWritePermissions == hasPermission(DashboardsPublicWrite)

\* a slip that forgets the permission half of the disjunction
disableInputsOnlyWhileLoading(canWrite, loading) == loading

disableInputs(canWrite, loading) == ~canWrite \/ loading

\* the controls of ConfigPublicDashboardBase as the last render left them
InputsDisabled == disableInputs(hasWritePermissions, renderedIsLoading)

\* the delete modal lies over the controls of the component while it is shown
ControlsCovered == modal.component = "DeletePublicDashboardModal"

\* setValue(name, value)
setValue(values, name, value) == [values EXCEPT ![name] = value]

\* the payload onPublicDashboardUpdate hands to update
onPublicDashboardUpdate(values) ==
    [ annotationsEnabled   |-> values.isAnnotationsEnabled,
      timeSelectionEnabled |-> values.isTimeSelectionEnabled,
      isEnabled            |-> ~values.isPaused ]

\* isLoading of useUpdatePublicDashboardMutation: the request started last is pending
mutationIsLoading == \E r \in inFlight : r.id = latest

\* a slip that asks for no confirmation: Revoke deletes at once
onRevokeDeleting(d) == [deletes |-> d + 1, modal |-> NoModal]

\* onRevoke: show the DeletePublicDashboardModal
onRevoke(d) ==
    [deletes |-> d, modal |-> [component |-> "DeletePublicDashboardModal", activeTab |-> "none"]]

\* a slip that dispatches the delete and leaves the modal open
onConfirmKeepingModal(d) ==
    [deletes |-> d + 1, modal |-> [component |-> "DeletePublicDashboardModal", activeTab |-> "none"]]

\* onConfirm: onDeletePublicDashboardClick(hideModal) dispatches the delete, then hides the modal
onConfirm(d) == [deletes |-> d + 1, modal |-> NoModal]

\* onDismiss of the delete modal: show the ShareModal on the public dashboard tab
onDismiss(d) ==
    [deletes |-> d,
     modal |-> [component |-> "ShareModal", activeTab |-> shareDashboardType.publicDashboard]]

\* the state when the component is mounted for some public dashboard
InitDashboard ==
    /\ perms \in {{}, {DashboardsPublicWrite}}
    /\ hook = "none"
    /\ rule = NoRule
    /\ editable = NoEditable
    /\ amChoice = NoQuery
    /\ alertmanager = NoAlertmanager
    /\ abilities = <<>>
    /\ \E pd \in PublicDashboards : Mounted(pd)

\* the user toggles the pause switch or a setting: onChange(name, checked) sets the
\* value and calls handleSubmit, which takes the values and awaits the validation
ChangeSetting ==
    /\ ~InputsDisabled
    /\ ~ControlsCovered
    /\ latest + Len(submitting) < MaxChanges
    /\ \E name \in FormFields :
         /\ form' = setValue(form, name, ~form[name])
         /\ submitting' = Append(submitting, form')
         /\ reported' = IF name = "isPaused"
                        THEN reported \cup {"dashboards_sharing_public_pause_clicked"}
                        ELSE reported
    /\ UNCHANGED <<perms, abilityVars, publicDashboard, inFlight, latest, renderedIsLoading, modal,
                   deletes, revokes, confirmations, dismissals>>

\* the validation of the oldest handleSubmit call ends: onPublicDashboardUpdate calls update
HandleSubmit ==
    /\ submitting # <<>>
    /\ latest' = latest + 1
    /\ inFlight' = inFlight \cup {[id |-> latest + 1, payload |-> onPublicDashboardUpdate(Head(submitting))]}
    /\ submitting' = Tail(submitting)
    /\ UNCHANGED <<perms, abilityVars, form, publicDashboard, renderedIsLoading, modal,
                   deletes, revokes, confirmations, dismissals, reported>>

\* the component renders again and reads isLoading of the mutation
Render ==
    /\ renderedIsLoading # mutationIsLoading
    /\ renderedIsLoading' = mutationIsLoading
    /\ UNCHANGED <<perms, abilityVars, form, publicDashboard, submitting, inFlight, latest, modal,
                   deletes, revokes, confirmations, dismissals, reported>>

\* the backend answers an update: it stores the payload, or it fails
UpdateSettled ==
    /\ \E r \in inFlight, ok \in BOOLEAN :
         /\ inFlight' = inFlight \ {r}
         /\ publicDashboard' = IF ok THEN r.payload ELSE publicDashboard
    /\ UNCHANGED <<perms, abilityVars, form, submitting, latest, renderedIsLoading, modal,
                   deletes, revokes, confirmations, dismissals, reported>>

\* the user copies the URL, which needs no permission
CopyURL ==
    /\ publicDashboard.isEnabled
    /\ ~ControlsCovered
    /\ reported' = reported \cup {"dashboards_sharing_public_copy_url_clicked"}
    /\ UNCHANGED <<perms, abilityVars, form, publicDashboard, submitting, inFlight, latest,
                   renderedIsLoading, modal, deletes, revokes, confirmations, dismissals>>

\* the user clicks Revoke public URL
ClickRevoke ==
    /\ ~InputsDisabled
    /\ ~ControlsCovered
    /\ revokes < MaxRevokes
    /\ revokes' = revokes + 1
    /\ reported' = reported \cup {"dashboards_sharing_public_revoke_clicked"}
    /\ deletes' = onRevoke(deletes).deletes
    /\ modal' = onRevoke(deletes).modal
    /\ UNCHANGED <<perms, abilityVars, form, publicDashboard, submitting, inFlight, latest,
                   renderedIsLoading, confirmations, dismissals>>

\* the user confirms in the DeletePublicDashboardModal
ConfirmDelete ==
    /\ modal.component = "DeletePublicDashboardModal"
    /\ confirmations' = confirmations + 1
    /\ deletes' = onConfirm(deletes).deletes
    /\ modal' = onConfirm(deletes).modal
    /\ UNCHANGED <<perms, abilityVars, form, publicDashboard, submitting, inFlight, latest,
                   renderedIsLoading, revokes, dismissals, reported>>

\* the user dismisses the DeletePublicDashboardModal
DismissDelete ==
    /\ modal.component = "DeletePublicDashboardModal"
    /\ dismissals' = dismissals + 1
    /\ deletes' = onDismiss(deletes).deletes
    /\ modal' = onDismiss(deletes).modal
    /\ UNCHANGED <<perms, abilityVars, form, publicDashboard, submitting, inFlight, latest,
                   renderedIsLoading, revokes, confirmations, reported>>

\* the user dismisses the ShareModal that the dismissal opened: onDismiss is hideModal
DismissShareModal ==
    /\ modal.component = "ShareModal"
    /\ modal' = NoModal
    /\ UNCHANGED <<perms, abilityVars, form, publicDashboard, submitting, inFlight, latest,
                   renderedIsLoading, deletes, revokes, confirmations, dismissals, reported>>

NextDashboard ==
    \/ ChangeSetting
    \/ HandleSubmit
    \/ Render
    \/ UpdateSettled
    \/ CopyURL
    \/ ClickRevoke
    \/ ConfirmDelete
    \/ DismissDelete
    \/ DismissShareModal

SpecDashboard == InitDashboard /\ [][NextDashboard]_vars

----------------------------------------------------------------------------
(* C11 *)

\* C11: at most one update-public-dashboard mutation is in flight at any time,
\* however the user's changes, the handleSubmit steps and the renders interleave.
C11_SingleUpdateInFlight == Cardinality(inFlight) <= 1

----------------------------------------------------------------------------
(* C12 *)

\* C12: for a user without the DashboardsPublicWrite permission the pause switch, the
\* settings inputs and the Revoke button are disabled in every state, and neither an
\* update nor the revoke and delete flow has ever been started.
C12_NoWriteNoMutation ==
    ~(DashboardsPublicWrite \in perms) =>
        /\ InputsDisabled
        /\ submitting = <<>>
        /\ latest = 0
        /\ inFlight = {}
        /\ revokes = 0
        /\ modal.component = "none"
        /\ deletes = 0

\* a user without the permission used the one control left to them, copying the URL
C12_Witness ==
    /\ ~(DashboardsPublicWrite \in perms)
    /\ "dashboards_sharing_public_copy_url_clicked" \in reported
    /\ InputsDisabled
    /\ latest = 0
    /\ deletes = 0

----------------------------------------------------------------------------
(* C13 *)

DeleteModalShown == modal.component = "DeletePublicDashboardModal"

\* every delete was dispatched by a confirmation, and every confirmation or dismissal
\* answered a delete modal that a click on Revoke had opened
RevokeFlowOrdered ==
    /\ deletes = confirmations
    /\ confirmations + dismissals + (IF DeleteModalShown THEN 1 ELSE 0) = revokes

\* a step dispatches the delete only as a confirmation in the shown delete modal, a
\* confirmation dispatches it once and hides the modal, a dismissal dispatches
\* nothing and shows the ShareModal on the public dashboard tab
RevokeFlowStep ==
    /\ deletes' # deletes => (DeleteModalShown /\ confirmations' = confirmations + 1)
    /\ confirmations' # confirmations =>
          (deletes' = deletes + 1 /\ modal'.component = "none")
    /\ dismissals' # dismissals =>
          /\ deletes' = deletes
          /\ modal' = [component |-> "ShareModal", activeTab |-> "public-dashboard"]

\* C13: the delete mutation is dispatched only after the user clicked Revoke and then
\* confirmed in the DeletePublicDashboardModal; each confirmation dispatches it exactly
\* once and then hides the modal; a dismissal never dispatches it and shows the
\* ShareModal on the public dashboard tab instead.
C13_RevokeFlow == [] RevokeFlowOrdered /\ [][RevokeFlowStep]_vars

\* Revoke was clicked twice: dismissed the first time, confirmed the second
C13_Witness ==
    /\ revokes = 2
    /\ dismissals = 1
    /\ confirmations = 1
    /\ deletes = 1
    /\ modal.component = "none"

====
